---- MODULE Spec2Model ----
(***************************************************************************)
(* A model of the static exclusivity diagnostic pass                       *)
(* (lib/SILOptimizer/Mandatory/DiagnoseStaticExclusivity.cpp).             *)
(*                                                                         *)
(* The state machine is checkStaticExclusivity run on one SIL function.    *)
(* The function is the input: its control-flow graph is drawn in Init, and *)
(* the instructions of each block are drawn one at a time as the walk      *)
(* reaches them (the walk visits every block once, so drawing a block's    *)
(* instructions when it is visited is the same as drawing them up front).  *)
(* The instructions drawn so far are kept in `body`, so that properties of *)
(* the whole function (well-formedness over every path) can be stated.     *)
(*                                                                         *)
(* A second state machine is the migrator's driver                         *)
(* (lib/Migrator/Migrator.cpp): updateCodeAndEmitRemap with its fix-it     *)
(* loops and its list of migration states.                                 *)
(***************************************************************************)
EXTENDS Integers, Sequences, FiniteSets, TLC

\* ------------------------------------------------------------------ bounds

\* The number of begin_access instructions of the function.
MaxAccesses == 3

\* The number of instructions of the function: its begin_access, end_access
\* and apply instructions and the terminator of each of its blocks.
MaxInstrs == 5

\* The number of instructions of a function with one merge.
MaxMergeInstrs == 7

\* The largest value taken for Migrator::MaxCompilerFixitPassIterations, the
\* number of fix-it migrations after the syntactic passes.
MaxIterations == 3

\* The number of fix-it migrations before the syntactic passes.
PreFixItIterations == 2

\* ------------------------------------------------------- the input function

\* The control-flow graphs the function is drawn from: each gives, per block,
\* the successors of the block's terminator in order.  Block 1 is the entry.
\*   1: a single block
\*   2: if-then        1 -> (2, 3), 2 -> 3
\*   3: diamond        1 -> (2, 3), 2 -> 4, 3 -> 4
\*   4: self loop      1 -> 2, 2 -> (2, 3)
\*   5: loop           1 -> 2, 2 -> (3, 4), 3 -> 2
CFGs ==
  << << <<>> >>,
     << <<2, 3>>, <<3>>, <<>> >>,
     << <<2, 3>>, <<4>>, <<4>>, <<>> >>,
     << <<2>>, <<2, 3>>, <<>> >>,
     << <<2>>, <<3, 4>>, <<2>>, <<>> >> >>

Range(s) == {s[i] : i \in DOMAIN s}

BlocksOf(succ) == DOMAIN succ

EntryBlock == 1

\* Depth-first post order from the entry block, successors in terminator order.
RECURSIVE PostOrderVisit(_, _, _)
RECURSIVE PostOrderVisitAll(_, _, _, _)
PostOrderVisit(succ, b, st) ==
  IF b \in st.seen THEN st
  ELSE LET st1 == [st EXCEPT !.seen = @ \cup {b}]
           st2 == PostOrderVisitAll(succ, succ[b], 1, st1)
       IN  [st2 EXCEPT !.po = Append(@, b)]

PostOrderVisitAll(succ, ss, i, st) ==
  IF i > Len(ss) THEN st
  ELSE PostOrderVisitAll(succ, ss, i + 1, PostOrderVisit(succ, ss[i], st))

Reverse(s) == [i \in 1..Len(s) |-> s[Len(s) + 1 - i]]

getReversePostOrder(succ) ==
  Reverse(PostOrderVisit(succ, EntryBlock, [seen |-> {}, po |-> <<>>]).po)

\* The predecessors of a block as a set.
PredSet(succ, b) == {p \in BlocksOf(succ) : b \in Range(succ[p])}

\* A sequence listing the set S of blocks in ascending or descending order.
RECURSIVE SortedSeq(_, _)
SortedSeq(S, asc) ==
  IF S = {} THEN <<>>
  ELSE LET x == IF asc THEN CHOOSE y \in S : \A z \in S : y <= z
                       ELSE CHOOSE y \in S : \A z \in S : y >= z
       IN  <<x>> \o SortedSeq(S \ {x}, asc)

\* The blocks reachable from the entry without passing through block `avoid`.
RECURSIVE ReachAvoiding(_, _, _)
ReachAvoiding(succ, avoid, R) ==
  LET R1 == R \cup {s \in BlocksOf(succ) :
                      s # avoid /\ \E p \in R : s \in Range(succ[p])}
  IN  IF R1 = R THEN R ELSE ReachAvoiding(succ, avoid, R1)

\* Block d dominates block b: every path from the entry to b passes through d.
Dominates(succ, d, b) ==
  \/ d = b
  \/ d = EntryBlock
  \/ b \notin ReachAvoiding(succ, d, {EntryBlock})

\* ------------------------------------------------------- storage locations

\* The values of the function that begin_access operands are built from:
\* a stack allocation, the address of global g, the address of a field of the
\* stack allocation, the address of global h, a box and its projection, an
\* address cast from a raw pointer, two class references o and p, a borrow of
\* o, the addresses of stored properties of these objects; then addresses
\* reached through chains of projections, casts and copies from the stack
\* allocation, the global, the box and the pointer cast, a function
\* argument with the address of its tail elements; and the results of a
\* begin_access on the global, with two fields of it, and of a begin_access
\* on the field of the stack allocation.
ValueDefs ==
  << [kind |-> "AllocStackInst"],
     [kind |-> "GlobalAddrInst", global |-> "g"],
     [kind |-> "StructElementAddrInst", operand |-> 1],
     [kind |-> "GlobalAddrInst", global |-> "h"],
     [kind |-> "AllocBoxInst"],
     [kind |-> "ProjectBoxInst", operand |-> 5],
     [kind |-> "PointerToAddressInst"],
     [kind |-> "Object"],
     [kind |-> "Object"],
     [kind |-> "BeginBorrowInst", operand |-> 8],
     [kind |-> "RefElementAddrInst", operand |-> 8, field |-> "f"],
     [kind |-> "RefElementAddrInst", operand |-> 10, field |-> "f"],
     [kind |-> "RefElementAddrInst", operand |-> 8, field |-> "x"],
     [kind |-> "RefElementAddrInst", operand |-> 9, field |-> "f"],
     [kind |-> "TupleElementAddrInst", operand |-> 3],
     [kind |-> "StructElementAddrInst", operand |-> 1, field |-> "y"],
     [kind |-> "IndexAddrInst", operand |-> 2],
     [kind |-> "UncheckedAddrCastInst", operand |-> 17],
     [kind |-> "CopyValueInst", operand |-> 5],
     [kind |-> "MarkUninitializedInst", operand |-> 19],
     [kind |-> "ProjectBoxInst", operand |-> 20],
     [kind |-> "UncheckedTakeEnumDataAddrInst", operand |-> 7],
     [kind |-> "TailAddrInst", operand |-> 22],
     [kind |-> "SILFunctionArgument"],
     [kind |-> "RefTailAddrInst", operand |-> 24],
     [kind |-> "BeginAccessInst", operand |-> 2],
     [kind |-> "StructElementAddrInst", operand |-> 26],
     [kind |-> "TupleElementAddrInst", operand |-> 26],
     [kind |-> "BeginAccessInst", operand |-> 3] >>

\* The values that are addresses: what a begin_access may have as operand.
AddressValues ==
  {1, 2, 3, 4, 5, 6, 7, 11, 12, 13, 14, 15, 16, 17, 18, 21, 22, 23, 24, 25,
   26, 27, 28, 29}

\* The values used as the operand of a begin_access.
AccessSources == {2, 3}

LookThroughKinds ==
  {"ProjectBoxInst", "CopyValueInst", "MarkUninitializedInst",
   "UncheckedAddrCastInst", "StructElementAddrInst", "TupleElementAddrInst",
   "UncheckedTakeEnumDataAddrInst", "RefTailAddrInst", "TailAddrInst",
   "IndexAddrInst"}

BaseKinds ==
  {"AllocBoxInst", "AllocStackInst", "BeginAccessInst", "SILFunctionArgument",
   "PointerToAddressInst"}

RECURSIVE findUnderlyingObject(_)
findUnderlyingObject(v) ==
  IF ValueDefs[v].kind = "BeginBorrowInst"
    THEN findUnderlyingObject(ValueDefs[v].operand)
    ELSE v

\* Mutant: the result of a begin_access is looked through, to the location
\* the access is to.
RECURSIVE findAccessedStorage_ThroughAccess(_)
findAccessedStorage_ThroughAccess(v) ==
  LET d == ValueDefs[v]
  IN  IF d.kind = "GlobalAddrInst"
        THEN [Kind |-> "GlobalVar", Global |-> d.global]
      ELSE IF d.kind = "RefElementAddrInst"
        THEN [Kind |-> "ClassProperty",
              Object |-> findUnderlyingObject(d.operand), Proj |-> d.field]
      ELSE IF d.kind \in LookThroughKinds \cup {"BeginAccessInst"}
        THEN findAccessedStorage_ThroughAccess(d.operand)
      ELSE IF d.kind \in BaseKinds
        THEN [Kind |-> "Value", Value |-> v]
      ELSE [Kind |-> "Unexpected"]

\* Mutant: the address of a struct field is taken as a location of its own.
RECURSIVE findAccessedStorage_FieldAsBase(_)
findAccessedStorage_FieldAsBase(v) ==
  LET d == ValueDefs[v]
  IN  IF d.kind = "GlobalAddrInst"
        THEN [Kind |-> "GlobalVar", Global |-> d.global]
      ELSE IF d.kind = "RefElementAddrInst"
        THEN [Kind |-> "ClassProperty",
              Object |-> findUnderlyingObject(d.operand), Proj |-> d.field]
      ELSE IF d.kind \in LookThroughKinds \ {"StructElementAddrInst"}
        THEN findAccessedStorage_FieldAsBase(d.operand)
      ELSE IF d.kind \in BaseKinds \cup {"StructElementAddrInst"}
        THEN [Kind |-> "Value", Value |-> v]
      ELSE [Kind |-> "Unexpected"]

RECURSIVE findAccessedStorage(_)
findAccessedStorage(v) ==
  LET d == ValueDefs[v]
  IN  IF d.kind = "GlobalAddrInst"
        THEN [Kind |-> "GlobalVar", Global |-> d.global]
      ELSE IF d.kind = "RefElementAddrInst"
        THEN [Kind |-> "ClassProperty",
              Object |-> findUnderlyingObject(d.operand), Proj |-> d.field]
      ELSE IF d.kind \in LookThroughKinds
        THEN findAccessedStorage(d.operand)
      ELSE IF d.kind \in BaseKinds
        THEN [Kind |-> "Value", Value |-> v]
      ELSE [Kind |-> "Unexpected"]

\* Mutant: two storage locations of one kind are taken to be the same.
isEqual_KindOnly(LHS, RHS) == LHS.Kind = RHS.Kind

\* DenseMapInfo<AccessedStorage>::isEqual, with ObjectProjection::operator==.
isEqual(LHS, RHS) ==
  IF LHS.Kind # RHS.Kind THEN FALSE
  ELSE CASE LHS.Kind = "Value" -> LHS.Value = RHS.Value
         [] LHS.Kind = "GlobalVar" -> LHS.Global = RHS.Global
         [] LHS.Kind = "ClassProperty" ->
              LHS.Object = RHS.Object /\ LHS.Proj = RHS.Proj

\* --------------------------------------------------------------- AccessInfo

SILAccessKind == {"Init", "Read", "Modify", "Deinit"}

\* The access kinds the function's begin_access instructions are drawn from.
AccessKinds == {"Read", "Modify"}

\* `unsigned` counters are kept as the representative of their residue modulo
\* 2^32 that lies in -2^31 .. 2^31 - 1: 0 - 1 is -1, which stands for
\* 2^32 - 1.  An unsigned comparison x > 0 is then x # 0, and x > 1 is
\* x \notin {0, 1}.
UGt0(x) == x # 0
UGt1(x) == x \notin {0, 1}

\* A default-constructed AccessInfo.  FirstAccess 0 is the null pointer.
NewAccessInfo == [Reads |-> 0, NonReads |-> 0, FirstAccess |-> 0]

\* Mutant: a read is taken to conflict with open reads too.
conflictsWithAccess_AnyAccess(Info, Kind) ==
  UGt0(Info.NonReads) \/ UGt0(Info.Reads)

\* Mutant: a read is taken to conflict with no open access.
conflictsWithAccess_ReadNever(Info, Kind) ==
  Kind # "Read" /\ (UGt0(Info.NonReads) \/ UGt0(Info.Reads))

conflictsWithAccess(Info, Kind) ==
  IF Kind = "Read"
    THEN UGt0(Info.NonReads)
    ELSE UGt0(Info.NonReads) \/ UGt0(Info.Reads)

\* Mutant: two open write-like accesses are not taken as an earlier conflict.
alreadyHadConflict_NoStackedWrites(Info) ==
  UGt0(Info.NonReads) /\ UGt0(Info.Reads)

\* Mutant: an open write-like access with an open read is not taken as an
\* earlier conflict.
alreadyHadConflict_NoMixed(Info) ==
  UGt1(Info.NonReads)

alreadyHadConflict(Info) ==
  (UGt0(Info.NonReads) /\ UGt0(Info.Reads)) \/ UGt1(Info.NonReads)

\* Mutant: only the write-like accesses keep a record in progress.
hasAccessesInProgress_WritesOnly(Info) == UGt0(Info.NonReads)

hasAccessesInProgress(Info) == UGt0(Info.Reads) \/ UGt0(Info.NonReads)

\* Mutant: every begin_access becomes the first access of the record.
beginAccess_AlwaysFirst(Info, BAI, Kind) ==
  IF Kind = "Read"
    THEN [Info EXCEPT !.FirstAccess = BAI, !.Reads = @ + 1]
    ELSE [Info EXCEPT !.FirstAccess = BAI, !.NonReads = @ + 1]

\* Mutant: the kind test is inverted, reads are counted as write-like accesses
\* and write-like accesses as reads.
beginAccess_SwappedCounters(Info, BAI, Kind) ==
  LET I1 == IF Info.FirstAccess = 0
              THEN [Info EXCEPT !.FirstAccess = BAI]
              ELSE Info
  IN  IF Kind # "Read"
        THEN [I1 EXCEPT !.Reads = @ + 1]
        ELSE [I1 EXCEPT !.NonReads = @ + 1]

\* Mutant: a begin_access that conflicts with the accesses in progress is
\* not counted.
beginAccess_NotCountedOnConflict(Info, BAI, Kind) ==
  IF conflictsWithAccess(Info, Kind)
    THEN Info
    ELSE IF Kind = "Read"
      THEN [Info EXCEPT !.FirstAccess = IF @ = 0 THEN BAI ELSE @, !.Reads = @ + 1]
      ELSE [Info EXCEPT !.FirstAccess = IF @ = 0 THEN BAI ELSE @, !.NonReads = @ + 1]

\* BAI is the id of the begin_access, Kind its access kind.
beginAccess(Info, BAI, Kind) ==
  LET I1 == IF Info.FirstAccess = 0
              THEN [Info EXCEPT !.FirstAccess = BAI]
              ELSE Info
  IN  IF Kind = "Read"
        THEN [I1 EXCEPT !.Reads = @ + 1]
        ELSE [I1 EXCEPT !.NonReads = @ + 1]

\* Mutant: the end of an access is taken from the counter of the other kind.
endAccess_OtherCounter(Info, Kind) ==
  LET I1 == IF Kind = "Read"
              THEN [Info EXCEPT !.NonReads = @ - 1]
              ELSE [Info EXCEPT !.Reads = @ - 1]
  IN  IF I1.Reads = 0 /\ I1.NonReads = 0
        THEN [I1 EXCEPT !.FirstAccess = 0]
        ELSE I1

\* Mutant: the end of an access forgets the first access of the record.
endAccess_ForgetFirst(Info, Kind) ==
  IF Kind = "Read"
    THEN [Info EXCEPT !.Reads = @ - 1, !.FirstAccess = 0]
    ELSE [Info EXCEPT !.NonReads = @ - 1, !.FirstAccess = 0]

\* Mutant: the end of an access leaves the counters as they are.
endAccess_NoDecrement(Info, Kind) == Info

\* Mutant: the first access is forgotten as soon as no read is open.
endAccess_ClearOnNoReads(Info, Kind) ==
  LET I1 == IF Kind = "Read"
              THEN [Info EXCEPT !.Reads = @ - 1]
              ELSE [Info EXCEPT !.NonReads = @ - 1]
  IN  IF I1.Reads = 0
        THEN [I1 EXCEPT !.FirstAccess = 0]
        ELSE I1

\* Kind is the access kind of the begin_access the end_access is paired with.
endAccess(Info, Kind) ==
  LET I1 == IF Kind = "Read"
              THEN [Info EXCEPT !.Reads = @ - 1]
              ELSE [Info EXCEPT !.NonReads = @ - 1]
  IN  IF I1.Reads = 0 /\ I1.NonReads = 0
        THEN [I1 EXCEPT !.FirstAccess = 0]
        ELSE I1

\* --------------------------------------------------------------- StorageMap

EmptyStorageMap == [s \in {} |-> NewAccessInfo]

\* The keys of the map that the key Storage is equal to: the map finds an
\* entry by isEqual.
KeysFor(Accesses, Storage) == {k \in DOMAIN Accesses : isEqual(k, Storage)}

\* Accesses.find(Storage) != Accesses.end()
Contains(Accesses, Storage) == KeysFor(Accesses, Storage) # {}

\* Accesses[Storage]: the entry, default-constructed when absent.
Lookup(Accesses, Storage) ==
  IF Contains(Accesses, Storage)
    THEN Accesses[CHOOSE k \in KeysFor(Accesses, Storage) : TRUE]
    ELSE NewAccessInfo

\* The write through the reference Accesses[Storage]: into the entry found,
\* or into a new entry with key Storage.
Store(Accesses, Storage, Info) ==
  LET K == IF Contains(Accesses, Storage)
             THEN CHOOSE k \in KeysFor(Accesses, Storage) : TRUE
             ELSE Storage
  IN  [s \in DOMAIN Accesses \cup {K} |-> IF s = K THEN Info ELSE Accesses[s]]

\* Mutant: the entry of a location with no access in progress is kept.
Erase_Keep(Accesses, Storage) == Accesses

Erase(Accesses, Storage) ==
  [s \in DOMAIN Accesses \ KeysFor(Accesses, Storage) |-> Accesses[s]]

NoState == [has |-> FALSE, map |-> EmptyStorageMap]
SomeState(m) == [has |-> TRUE, map |-> m]

\* ------------------------------------------------------ source expressions

\* The protocols a subscript declaration is declared in (the protocol or its
\* extension, "" when it is declared elsewhere) and whose requirements it
\* satisfies.
SubscriptDecls ==
  [d \in {"Array.subscript", "MutableCollection.subscript",
          "Collection.subscript", "Dictionary.subscript"} |->
     CASE d = "Array.subscript" ->
            [Protocol |-> "", Satisfied |-> {"Collection", "MutableCollection"}]
       [] d = "MutableCollection.subscript" ->
            [Protocol |-> "MutableCollection", Satisfied |-> {}]
       [] d = "Collection.subscript" ->
            [Protocol |-> "Collection", Satisfied |-> {}]
       [] d = "Dictionary.subscript" ->
            [Protocol |-> "", Satisfied |-> {}]]

\* A source location that holds no AST node.
NullLoc == [node |-> "null"]

DeclRefExpr(text) == [node |-> "DeclRefExpr", Text |-> text]

\* (e), the index of base[e]; and (e1, e2), the index of base[e1, e2].
ParenExpr(e) == [node |-> "ParenExpr", SubExpr |-> e]
TupleExpr(e1, e2) == [node |-> "TupleExpr", Elements |-> <<e1, e2>>]

\* base[index], resolved to the subscript declaration decl.
SubscriptExpr(decl, base, index) ==
  [node |-> "SubscriptExpr", Decl |-> decl, Base |-> base, Index |-> index]

\* &e, the argument expression the begin_access a was emitted for.
InOutExpr(a, e) == [node |-> "InOutExpr", id |-> a, SubExpr |-> e]

\* A load, the expression a begin_access [read] is emitted for.
LoadExpr(a) == [node |-> "LoadExpr", id |-> a]

\* f(arg1, arg2).
CallExpr(arg1, arg2) == [node |-> "CallExpr", Arg1 |-> arg1, Arg2 |-> arg2]

\* The text of the source range of an expression.
extractExprText(E) == E.Text

\* The expressions under the & of the inout arguments of the function:
\* c[i], c[j] and d[j] on an Array, c[i, j], c[i] on a Dictionary, on a
\* MutableCollection and on a Collection, and the variable x.
ArgExprs ==
  {SubscriptExpr("Array.subscript", DeclRefExpr("c"), ParenExpr(DeclRefExpr("i"))),
   SubscriptExpr("Array.subscript", DeclRefExpr("c"), ParenExpr(DeclRefExpr("j"))),
   SubscriptExpr("Array.subscript", DeclRefExpr("d"), ParenExpr(DeclRefExpr("j"))),
   SubscriptExpr("Array.subscript", DeclRefExpr("c"),
                 TupleExpr(DeclRefExpr("i"), DeclRefExpr("j"))),
   SubscriptExpr("Dictionary.subscript", DeclRefExpr("c"), ParenExpr(DeclRefExpr("i"))),
   SubscriptExpr("MutableCollection.subscript", DeclRefExpr("c"),
                 ParenExpr(DeclRefExpr("i"))),
   SubscriptExpr("Collection.subscript", DeclRefExpr("c"), ParenExpr(DeclRefExpr("i"))),
   DeclRefExpr("x")}

\* The functions the apply instructions of the function call.
Callees == {"swap", "other"}

\* Whether the apply calls the Standard Library swap().
isCallToStandardLibrarySwap(AI) == AI.Callee = "swap"

\* No replacement is attached to the diagnostic.
NoFixIt == [Replace |-> NullLoc, Text |-> <<>>]

\* The first call to swap() of CallsToSwap[i..] whose location is a call
\* expression with InOut1 and InOut2 as its arguments; NullLoc when none.
RECURSIVE FindCall(_, _, _, _)
FindCall(Calls, i, InOut1, InOut2) ==
  IF i > Len(Calls) THEN NullLoc
  ELSE LET CE == Calls[i].Loc
       IN  IF CE.node # "CallExpr" THEN FindCall(Calls, i + 1, InOut1, InOut2)
           ELSE IF CE.Arg1 = InOut1 /\ CE.Arg2 = InOut2 THEN CE
           ELSE FindCall(Calls, i + 1, InOut1, InOut2)

\* Mutant: only a subscript declared in MutableCollection itself is accepted.
IsSubscriptOnMutableCollection_ProtocolOnly(Decl) ==
  SubscriptDecls[Decl].Protocol = "MutableCollection"

\* Whether the subscript is on MutableCollection itself or a witness of one
\* of its requirements.
IsSubscriptOnMutableCollection(Decl) ==
  IF SubscriptDecls[Decl].Protocol # ""
    THEN SubscriptDecls[Decl].Protocol = "MutableCollection"
    ELSE "MutableCollection" \in SubscriptDecls[Decl].Satisfied

\* The replacement of swap(&base[index1], &base[index2]) by
\* base.swapAt(index1, index2) for the two accesses of a violation, NoFixIt
\* when the accesses do not match the pattern.  An access is a begin_access
\* with its Kind and its source location Loc.
tryFixItWithCallToCollectionSwapAt(Access1, Access2, Calls) ==
  IF Calls = <<>> THEN NoFixIt
  ELSE IF Access1.Kind # "Modify" \/ Access2.Kind # "Modify" THEN NoFixIt
  ELSE IF Access1.Loc.node # "InOutExpr" \/ Access2.Loc.node # "InOutExpr"
    THEN NoFixIt
  ELSE
    LET InOut1 == Access1.Loc
        InOut2 == Access2.Loc
        FoundCall == FindCall(Calls, 1, InOut1, InOut2)
        SE1 == InOut1.SubExpr
        SE2 == InOut2.SubExpr
    IN  IF FoundCall = NullLoc THEN NoFixIt
        ELSE IF SE1.node # "SubscriptExpr" \/ SE2.node # "SubscriptExpr" THEN NoFixIt
        ELSE IF SE1.Decl # SE2.Decl THEN NoFixIt
        ELSE IF ~IsSubscriptOnMutableCollection(SE1.Decl) THEN NoFixIt
        ELSE IF extractExprText(SE1.Base) # extractExprText(SE2.Base) THEN NoFixIt
        ELSE IF SE1.Index.node # "ParenExpr" \/ SE2.Index.node # "ParenExpr"
          THEN NoFixIt
        ELSE [Replace |-> FoundCall,
              Text |-> << extractExprText(SE1.Base), ".swapAt(",
                          extractExprText(SE1.Index.SubExpr), ", ",
                          extractExprText(SE2.Index.SubExpr), ")" >>]

\* -------------------------------------------------------------------- state

VARIABLES
  mig,                  \* the migrator: its migration states, its position in
                        \* updateCodeAndEmitRemap, the fix-it loop in progress
  input,                \* what the function's instructions are drawn from: the
                        \* number of instructions, the operands of begin_access,
                        \* the argument expressions of the calls
  cfg,                  \* the function's CFG: block -> successors, in order
  preds,                \* block -> its predecessor list (getPredecessorBlocks)
  body,                 \* block -> the instructions of the block drawn so far
  BAIs,                 \* the begin_access instructions, by id: Kind, Source, Block
  pc,                   \* "block", "instr", "emit", "done" or "fault"
  bi,                   \* the index in the reverse post order of the current block
  BlockOutAccesses,     \* block -> Optional<StorageMap>
  ConflictingAccesses,  \* the ConflictingAccess records, in the order pushed
  CallsToSwap,          \* the apply instructions that call swap(), in the order met
  next,                 \* the index of the next record of the emission loop
  Diags,                \* the diagnostics handed to the diagnostic engine, in order
  build,                \* "asserts", "release", or "unknown" while no assert has failed
  ub,                   \* an end() iterator was dereferenced and the run went on
  inFrom,               \* block -> the predecessor whose state it took (0: none)
  last,                 \* the instruction handled last, with the record it met
  probe                 \* two accesses met with an empty map: their operands,
                        \* their kinds, and what the map made of them

vars ==
  <<mig, input, cfg, preds, body, BAIs, pc, bi, BlockOutAccesses, ConflictingAccesses,
    CallsToSwap, next, Diags, build, ub, inFrom, last, probe>>

Blocks == BlocksOf(cfg)

RPO == getReversePostOrder(cfg)

\* The block being visited.
BB == RPO[bi]

\* The in-progress accesses at the current program point: a reference into
\* BlockOutAccesses, so every update is an update of the block's stored state.
Accesses == BlockOutAccesses[BB].map

NoLast ==
  [op |-> "none", id |-> 0, Storage |-> [Kind |-> "None"], Kind |-> "None",
   pre |-> NewAccessInfo, present |-> FALSE, conflicts |-> FALSE,
   had |-> FALSE, nConf |-> 0]

\* The number of begin_access, end_access and apply instructions drawn so far.
RECURSIVE SumLen(_, _)
SumLen(f, S) ==
  IF S = {} THEN 0
  ELSE LET b == CHOOSE x \in S : TRUE
       IN  Len(SelectSeq(f[b], LAMBDA i : i.op \in {"begin_access", "end_access",
                                                       "apply"}))
           + SumLen(f, S \ {b})

\* Whether the function has room for one more begin_access, end_access or
\* apply, every block having a terminator.
RoomForInstr == SumLen(body, Blocks) + Cardinality(Blocks) < input.Instrs

\* The builds an assertion that fails may be running in.
Builds == IF build = "unknown" THEN {"asserts", "release"} ELSE {build}

\* No compiler instance: a null unique_ptr.
NullInstance == [null |-> TRUE, hasASTContext |-> FALSE, hadError |-> FALSE]

\* No migration is under way.
NoMigrator ==
  [pc |-> "none", States |-> <<>>, NumBuffers |-> 0, hadError |-> FALSE,
   EnableMigratorFixits |-> FALSE, MaxCompilerFixitPassIterations |-> 0,
   phase |-> "none", Iterations |-> 0, i |-> 0, Ret |-> NullInstance,
   Outcomes |-> <<>>, Result |-> "none"]

NoProbe ==
  [done |-> FALSE, Source1 |-> 0, Source2 |-> 0, Kind1 |-> "None",
   Kind2 |-> "None", equal |-> FALSE, shared |-> FALSE, conflicts |-> FALSE]

\* The state of the pass before the walk of a function.
InitWalk ==
  /\ cfg \in Range(CFGs)
  /\ \E asc \in BOOLEAN :
       preds = [b \in BlocksOf(cfg) |-> SortedSeq(PredSet(cfg, b), asc)]
  /\ body = [b \in BlocksOf(cfg) |-> <<>>]
  /\ BAIs = <<>>
  /\ pc = "block"
  /\ bi = 1
  /\ BlockOutAccesses =
       [b \in BlocksOf(cfg) |->
          IF b = EntryBlock THEN SomeState(EmptyStorageMap) ELSE NoState]
  /\ ConflictingAccesses = <<>>
  /\ CallsToSwap = <<>>
  /\ next = 1
  /\ Diags = <<>>
  /\ build = "unknown"
  /\ ub = FALSE
  /\ inFrom = [b \in BlocksOf(cfg) |-> 0]
  /\ last = NoLast

\* A function of any of the shapes, with few instructions.
Init ==
  /\ InitWalk
  /\ input = [Instrs |-> MaxInstrs, Sources |-> AccessSources, Args |-> ArgExprs]
  /\ probe = NoProbe
  /\ mig = NoMigrator

\* ------------------------------------------------------------------ actions

\* Mutant: the first predecessor is taken, reached or not.
FirstAvailablePred_Unchecked(ps, i) == IF ps = <<>> THEN 0 ELSE ps[1]

\* The first predecessor, in predecessor order, whose out state is present;
\* 0 when there is none.
RECURSIVE FirstAvailablePred(_, _)
FirstAvailablePred(ps, i) ==
  IF i > Len(ps) THEN 0
  ELSE IF BlockOutAccesses[ps[i]].has THEN ps[i]
  ELSE FirstAvailablePred(ps, i + 1)

\* Mutant: the state of the predecessor is moved into the block, not copied.
PickInputState_Move ==
  /\ pc = "block"
  /\ LET p == FirstAvailablePred(preds[BB], 1)
         st == IF p # 0 THEN BlockOutAccesses[p] ELSE BlockOutAccesses[BB]
     IN  /\ BlockOutAccesses' =
              IF p # 0
                THEN [BlockOutAccesses EXCEPT ![BB] = st, ![p] = NoState]
                ELSE BlockOutAccesses
         /\ inFrom' = [inFrom EXCEPT ![BB] = p]
         /\ pc' = IF st.has THEN "instr" ELSE "fault"
  /\ last' = NoLast
  /\ UNCHANGED <<mig, input, probe, cfg, preds, body, BAIs, bi, ConflictingAccesses,
                 CallsToSwap, next, Diags, build, ub>>

\* The head of the loop over the reverse post order: the block takes the out
\* state of the first predecessor that has one.  A block left without a state
\* is dereferenced all the same (*BBState).
PickInputState ==
  /\ pc = "block"
  /\ LET p == FirstAvailablePred(preds[BB], 1)
         st == IF p # 0 THEN BlockOutAccesses[p] ELSE BlockOutAccesses[BB]
     IN  /\ BlockOutAccesses' = [BlockOutAccesses EXCEPT ![BB] = st]
         /\ inFrom' = [inFrom EXCEPT ![BB] = p]
         /\ pc' = IF st.has THEN "instr" ELSE "fault"
  /\ last' = NoLast
  /\ UNCHANGED <<mig, input, probe, cfg, preds, body, BAIs, bi, ConflictingAccesses, CallsToSwap,
                 next, Diags, build, ub>>

\* A begin_access instruction.
VisitBeginAccess ==
  /\ pc = "instr"
  /\ Len(BAIs) < MaxAccesses
  /\ RoomForInstr
  /\ \E Kind \in AccessKinds, Source \in input.Sources :
       LET BAI == Len(BAIs) + 1
           Storage == findAccessedStorage(Source)
           Info == Lookup(Accesses, Storage)
           conflict == conflictsWithAccess(Info, Kind)
           had == alreadyHadConflict(Info)
       IN  /\ BAIs' = Append(BAIs, [Kind |-> Kind, Source |-> Source, Block |-> BB])
           /\ body' = [body EXCEPT ![BB] = Append(@, [op |-> "begin_access", id |-> BAI])]
           /\ ConflictingAccesses' =
                IF conflict /\ ~had
                  THEN Append(ConflictingAccesses,
                              [Storage |-> Storage,
                               FirstAccess |-> Info.FirstAccess,
                               SecondAccess |-> BAI])
                  ELSE ConflictingAccesses
           /\ BlockOutAccesses' =
                [BlockOutAccesses EXCEPT
                   ![BB].map = Store(@, Storage, beginAccess(Info, BAI, Kind))]
           /\ last' = [op |-> "begin_access", id |-> BAI, Storage |-> Storage,
                       Kind |-> Kind, pre |-> Info,
                       present |-> Contains(Accesses, Storage),
                       conflicts |-> conflict, had |-> had,
                       nConf |-> Len(ConflictingAccesses)]
  /\ UNCHANGED <<mig, input, probe, cfg, preds, pc, bi, CallsToSwap, next, Diags, build, ub,
                 inFrom>>

\* An end_access instruction, of a begin_access that dominates it.  When the
\* map holds no entry for the location, find() returns end() and the code
\* dereferences it: the run either crashes or goes on after a stray write.
VisitEndAccess ==
  /\ pc = "instr"
  /\ RoomForInstr
  /\ \E a \in 1..Len(BAIs) :
       /\ Dominates(cfg, BAIs[a].Block, BB)
       /\ LET Storage == findAccessedStorage(BAIs[a].Source)
              Info == Lookup(Accesses, Storage)
              Info1 == endAccess(Info, BAIs[a].Kind)
          IN  /\ body' = [body EXCEPT ![BB] = Append(@, [op |-> "end_access", id |-> a])]
              /\ last' = [op |-> "end_access", id |-> a, Storage |-> Storage,
                          Kind |-> BAIs[a].Kind, pre |-> Info,
                          present |-> Contains(Accesses, Storage),
                          conflicts |-> FALSE, had |-> FALSE,
                          nConf |-> Len(ConflictingAccesses)]
              /\ \/ /\ Contains(Accesses, Storage)
                    /\ BlockOutAccesses' =
                         [BlockOutAccesses EXCEPT
                            ![BB].map = IF hasAccessesInProgress(Info1)
                                          THEN Store(@, Storage, Info1)
                                          ELSE Erase(@, Storage)]
                    /\ UNCHANGED <<pc, ub>>
                 \/ /\ ~Contains(Accesses, Storage)
                    /\ \E crash \in BOOLEAN :
                         /\ pc' = IF crash THEN "fault" ELSE pc
                         /\ ub' = (ub \/ ~crash)
                    /\ UNCHANGED BlockOutAccesses
  /\ UNCHANGED <<mig, input, probe, cfg, preds, BAIs, bi, ConflictingAccesses, CallsToSwap, next,
                 Diags, build, inFrom>>

\* An apply instruction of a call with two inout arguments, swap(&e1, &e2) or
\* a call of another function: it follows the begin_access [modify] of the
\* two arguments, in the order of the arguments.  A call to swap() is
\* recorded for the fix-its, with the call expression it was emitted for, or
\* with no location.
VisitApply ==
  /\ pc = "instr"
  /\ RoomForInstr
  /\ LET n == Len(body[BB])
     IN  /\ n >= 2
         /\ \A k \in {n - 1, n} : /\ body[BB][k].op = "begin_access"
                                  /\ BAIs[body[BB][k].id].Kind = "Modify"
         /\ \E Callee \in Callees,
               Loc \in {NullLoc} \cup
                       {CallExpr(InOutExpr(body[BB][n - 1].id, e1),
                                 InOutExpr(body[BB][n].id, e2)) :
                          e1 \in input.Args, e2 \in input.Args} :
              LET AI == [Callee |-> Callee, Loc |-> Loc]
              IN  /\ body' = [body EXCEPT ![BB] = Append(@, [op |-> "apply", id |-> 0])]
                  /\ CallsToSwap' = IF isCallToStandardLibrarySwap(AI)
                                      THEN Append(CallsToSwap, AI)
                                      ELSE CallsToSwap
  /\ last' = [NoLast EXCEPT !.op = "apply"]
  /\ UNCHANGED <<mig, input, probe, cfg, preds, BAIs, pc, bi, BlockOutAccesses, ConflictingAccesses,
                 next, Diags, build, ub, inFrom>>

\* Mutant: the violations found so far are emitted at the end of every block,
\* not after the last one.
VisitTerminator_EmitPerBlock ==
  /\ pc = "instr"
  /\ \E op \in IF cfg[BB] = <<>> THEN {"return", "unreachable"} ELSE {"br"} :
       /\ body' = [body EXCEPT ![BB] = Append(@, [op |-> op, id |-> 0])]
       /\ last' = [NoLast EXCEPT !.op = op]
       /\ LET failed == op = "return" /\ DOMAIN Accesses # {}
          IN  \E b \in IF failed THEN Builds ELSE {build} :
                /\ build' = b
                /\ IF failed /\ b = "asserts"
                     THEN /\ pc' = "fault"
                          /\ bi' = bi
                     ELSE /\ bi' = bi + 1
                          /\ pc' = IF next <= Len(ConflictingAccesses) THEN "emit"
                                   ELSE IF bi < Len(RPO) THEN "block"
                                   ELSE "done"
  /\ UNCHANGED <<mig, input, probe, cfg, preds, BAIs, BlockOutAccesses, ConflictingAccesses,
                 CallsToSwap, next, Diags, ub, inFrom>>

\* The terminator of the block: a return or an unreachable when the block has
\* no successor, a branch otherwise.  A return asserts that the map is empty.
VisitTerminator ==
  /\ pc = "instr"
  /\ \E op \in IF cfg[BB] = <<>> THEN {"return", "unreachable"} ELSE {"br"} :
       /\ body' = [body EXCEPT ![BB] = Append(@, [op |-> op, id |-> 0])]
       /\ last' = [NoLast EXCEPT !.op = op]
       /\ LET failed == op = "return" /\ DOMAIN Accesses # {}
          IN  \E b \in IF failed THEN Builds ELSE {build} :
                /\ build' = b
                /\ IF failed /\ b = "asserts"
                     THEN /\ pc' = "fault"
                          /\ bi' = bi
                     ELSE /\ bi' = bi + 1
                          /\ pc' = IF bi < Len(RPO) THEN "block"
                                   ELSE IF ConflictingAccesses # <<>> THEN "emit"
                                   ELSE "done"
  /\ UNCHANGED <<mig, input, probe, cfg, preds, BAIs, BlockOutAccesses, ConflictingAccesses,
                 CallsToSwap, next, Diags, ub, inFrom>>

getRequiredAccess(BAI) ==
  IF BAI.Kind = "Read" THEN "SharedAccess" ELSE "ExclusiveAccess"

\* The declaration of the storage, "" when it has none.
getStorageDecl(Storage) ==
  IF Storage.Kind = "GlobalVar" THEN Storage.Global
  ELSE IF Storage.Kind = "Value"
            /\ ValueDefs[Storage.Value].kind \in {"AllocBoxInst", "SILFunctionArgument"}
    THEN "var"
  ELSE IF Storage.Kind = "ClassProperty" THEN Storage.Proj
  ELSE ""

\* The two diagnostics of one violation: the error, with the fix-it when the
\* storage has a declaration, and its note.
diagnoseExclusivityViolation(Storage, PriorAccess, NewAccess, Calls) ==
  LET PriorRequires == getRequiredAccess(PriorAccess)
      Main == IF PriorRequires # "ExclusiveAccess" THEN NewAccess ELSE PriorAccess
      Note == IF PriorRequires # "ExclusiveAccess" THEN PriorAccess ELSE NewAccess
      VD == getStorageDecl(Storage)
  IN  << IF VD # ""
           THEN [ID |-> "exclusivity_access_required",
                 Name |-> VD, Loc |-> Main.id, AccessKind |-> Main.Kind,
                 FixIt |-> tryFixItWithCallToCollectionSwapAt(
                             PriorAccess, NewAccess, Calls)]
           ELSE [ID |-> "exclusivity_access_required_unknown_decl",
                 Name |-> "", Loc |-> Main.id, AccessKind |-> Main.Kind,
                 FixIt |-> NoFixIt],
         [ID |-> "exclusivity_conflicting_access",
          Name |-> "", Loc |-> Note.id, AccessKind |-> "None",
          FixIt |-> NoFixIt] >>

\* The source locations the begin_access a may have: the inout argument it was
\* emitted for when it is an argument of a recorded call; otherwise none, a
\* load, or an inout argument of a call that was not recorded.
LocsOf(a) ==
  LET Args == UNION {{CallsToSwap[i].Loc.Arg1, CallsToSwap[i].Loc.Arg2} :
                       i \in {j \in 1..Len(CallsToSwap) :
                                CallsToSwap[j].Loc.node = "CallExpr"}}
      Mine == {e \in Args : e.node = "InOutExpr" /\ e.id = a}
  IN  IF Mine # {} THEN Mine
      ELSE {NullLoc, LoadExpr(a), InOutExpr(a, DeclRefExpr("x"))}

\* One round of the loop that emits the diagnostics of the violations.
\* diagnoseExclusivityViolation asserts that the two accesses are not both
\* reads.
EmitDiagnostics ==
  /\ pc = "emit"
  /\ LET V == ConflictingAccesses[next]
     IN  \E Loc1 \in LocsOf(V.FirstAccess), Loc2 \in LocsOf(V.SecondAccess) :
           LET PriorAccess == [id |-> V.FirstAccess,
                               Kind |-> BAIs[V.FirstAccess].Kind, Loc |-> Loc1]
               NewAccess == [id |-> V.SecondAccess,
                             Kind |-> BAIs[V.SecondAccess].Kind, Loc |-> Loc2]
               failed == PriorAccess.Kind = "Read" /\ NewAccess.Kind = "Read"
           IN  \E b \in IF failed THEN Builds ELSE {build} :
                 /\ build' = b
                 /\ IF failed /\ b = "asserts"
                      THEN /\ pc' = "fault"
                           /\ UNCHANGED <<next, Diags>>
                      ELSE /\ Diags' = Diags \o diagnoseExclusivityViolation(
                                                  V.Storage, PriorAccess, NewAccess,
                                                  CallsToSwap)
                           /\ next' = next + 1
                           /\ pc' = IF next < Len(ConflictingAccesses)
                                      THEN "emit" ELSE "done"
  /\ last' = NoLast
  /\ UNCHANGED <<mig, input, probe, cfg, preds, body, BAIs, bi, BlockOutAccesses,
                 ConflictingAccesses, CallsToSwap, ub, inFrom>>

Next ==
  \/ PickInputState
  \/ VisitBeginAccess
  \/ VisitEndAccess
  \/ VisitApply
  \/ VisitTerminator
  \/ EmitDiagnostics

Spec == Init /\ [][Next]_vars

\* --------------------------------------------- a function with one merge

\* An if-then: the last block has the two others as predecessors, in either
\* order.  The function has more instructions than those of Init, all its
\* accesses are to global g, and the arguments of its calls are variables.
InitMerge ==
  /\ InitWalk
  /\ cfg = CFGs[2]
  /\ input = [Instrs |-> MaxMergeInstrs, Sources |-> {2},
              Args |-> {DeclRefExpr("x")}]
  /\ probe = NoProbe
  /\ mig = NoMigrator

SpecMerge == InitMerge /\ [][Next]_vars

\* ------------------------------------------- two accesses and an empty map

\* Two begin_access instructions whose operands are drawn from all the
\* addresses of the function.
InitStorage ==
  /\ InitWalk
  /\ input = [Instrs |-> MaxInstrs, Sources |-> AccessSources, Args |-> ArgExprs]
  /\ \E v1 \in AddressValues, v2 \in AddressValues,
        k1 \in AccessKinds, k2 \in AccessKinds :
       probe = [NoProbe EXCEPT !.Source1 = v1, !.Source2 = v2,
                               !.Kind1 = k1, !.Kind2 = k2]
  /\ mig = NoMigrator

\* The first access is begun in an empty map; the second is looked up in the
\* map the first has left and tested for a conflict.
BeginTwoAccesses ==
  /\ ~probe.done
  /\ LET S1 == findAccessedStorage(probe.Source1)
         S2 == findAccessedStorage(probe.Source2)
         A1 == Store(EmptyStorageMap, S1,
                     beginAccess(Lookup(EmptyStorageMap, S1), 1, probe.Kind1))
         Info == Lookup(A1, S2)
     IN  probe' = [probe EXCEPT !.done = TRUE,
                                !.equal = isEqual(S1, S2),
                                !.shared = Contains(A1, S2),
                                !.conflicts = conflictsWithAccess(Info, probe.Kind2)]
  /\ UNCHANGED <<mig, input, cfg, preds, body, BAIs, pc, bi, BlockOutAccesses,
                 ConflictingAccesses, CallsToSwap, next, Diags, build, ub,
                 inFrom, last>>

NextStorage == BeginTwoAccesses

SpecStorage == InitStorage /\ [][NextStorage]_vars

\* ------------------------------------------------------------ the migrator

walkVars ==
  <<input, cfg, preds, body, BAIs, pc, bi, BlockOutAccesses, ConflictingAccesses,
    CallsToSwap, next, Diags, build, ub, inFrom, last, probe>>

\* A compiler instance that was set up: whether it has an AST context, and
\* whether that context had an error.
CompilerInstance(ctx, err) ==
  [null |-> FALSE, hasASTContext |-> ctx, hadError |-> ctx /\ err]

CompilerInstances ==
  {CompilerInstance(ctx, err) : ctx \in BOOLEAN, err \in BOOLEAN}

\* The migration states: the kind of migration and the buffers of its input
\* and output text, by buffer id.
MigrationStateStart(BufferID) ==
  [Kind |-> "Start", InputBufferID |-> BufferID, OutputBufferID |-> BufferID]

MigrationStateMake(Kind, InputBufferID, OutputBufferID) ==
  [Kind |-> Kind, InputBufferID |-> InputBufferID,
   OutputBufferID |-> OutputBufferID]

\* Mutant: no migration is taken to have left the text unchanged.
noChangesOccurred_Never(S) == FALSE

noChangesOccurred(S) == S.InputBufferID = S.OutputBufferID

Back(States) == States[Len(States)]

\* Mutant: the fix-it migrations before the syntactic passes are given up
\* only for an instance whose AST context had an error.
GiveUp_OnErrorOnly(PreFixItInstance) ==
  PreFixItInstance.hasASTContext /\ PreFixItInstance.hadError

\* The fix-it migrations before the syntactic passes did not fix all of the
\* errors.
GiveUp(PreFixItInstance) ==
  \/ PreFixItInstance.null
  \/ ~PreFixItInstance.hasASTContext
  \/ PreFixItInstance.hadError

\* One fix-it migration of the migrator M.  setupFails: the setup of the new
\* compiler instance fails; NumFixitsApplied: the number of fix-its the
\* consumer applied during semantic analysis; Instance: the instance after
\* it.  With fix-its applied the result is a new buffer, without it is the
\* output buffer of the input state.
performAFixItMigration(M, setupFails, NumFixitsApplied, Instance) ==
  LET InputState == Back(M.States)
      ResultBufferID == IF NumFixitsApplied > 0
                          THEN M.NumBuffers + 1
                          ELSE InputState.OutputBufferID
  IN  IF setupFails
        THEN [M EXCEPT !.Ret = NullInstance,
                       !.Outcomes = Append(@, "setupFailed")]
        ELSE [M EXCEPT
                !.NumBuffers = IF NumFixitsApplied > 0 THEN @ + 1 ELSE @,
                !.States = Append(@, MigrationStateMake("CompilerFixits",
                                                        InputState.OutputBufferID,
                                                        ResultBufferID)),
                !.Ret = Instance,
                !.Outcomes = Append(@, IF NumFixitsApplied > 0
                                         THEN "changed" ELSE "noChanges")]

\* Mutant: the loop runs once more than Iterations times.
LoopRuns_Inclusive(i, Iterations) == i <= Iterations

\* The condition of the loop of repeatFixitMigrations.
LoopRuns(i, Iterations) == i < Iterations

\* A call of repeatFixitMigrations(Iterations, ...) by the migrator M.
CallRepeatFixitMigrations(M, phase, Iterations) ==
  [M EXCEPT !.pc = "repeat", !.phase = phase, !.Iterations = Iterations,
            !.i = 0, !.Ret = NullInstance, !.Outcomes = <<>>]

\* The migrator after its construction in updateCodeAndEmitRemap: the start
\* state is its only state.  The start instance had an error or not, the
\* fix-its after the syntactic passes are enabled or not.
InitMigrator ==
  /\ InitWalk
  /\ cfg = CFGs[1]
  /\ input = [Instrs |-> MaxInstrs, Sources |-> AccessSources, Args |-> ArgExprs]
  /\ probe = NoProbe
  /\ \E err \in BOOLEAN, fixits \in BOOLEAN, n \in 0..MaxIterations :
       mig = [NoMigrator EXCEPT
                !.pc = "prefixits",
                !.States = <<MigrationStateStart(1)>>,
                !.NumBuffers = 1,
                !.hadError = err,
                !.EnableMigratorFixits = fixits,
                !.MaxCompilerFixitPassIterations = n]

\* Phase 1: with an error in the AST, fix-it migrations are tried first.
PreFixItPasses ==
  /\ mig.pc = "prefixits"
  /\ mig' = IF mig.hadError
              THEN CallRepeatFixitMigrations(mig, "pre", PreFixItIterations)
              ELSE [mig EXCEPT !.pc = "syntactic"]
  /\ UNCHANGED walkVars

\* One iteration of the loop of repeatFixitMigrations: a fix-it migration;
\* the loop is left when it failed, and the instance is returned when it
\* made no change.
RepeatFixitMigration ==
  /\ mig.pc = "repeat"
  /\ LoopRuns(mig.i, mig.Iterations)
  /\ \E setupFails \in BOOLEAN, NumFixitsApplied \in 0..1,
        Instance \in CompilerInstances :
       LET M == performAFixItMigration(mig, setupFails, NumFixitsApplied, Instance)
       IN  mig' = IF M.Ret.null
                    THEN [M EXCEPT !.pc = "returned"]
                  ELSE IF noChangesOccurred(Back(M.States))
                    THEN [M EXCEPT !.pc = "returned"]
                  ELSE [M EXCEPT !.i = @ + 1, !.Ret = NullInstance]
  /\ UNCHANGED walkVars

\* The loop of repeatFixitMigrations has run Iterations times: null is
\* returned.
RepeatFixitMigrationsEnd ==
  /\ mig.pc = "repeat"
  /\ ~LoopRuns(mig.i, mig.Iterations)
  /\ mig' = [mig EXCEPT !.pc = "returned", !.Ret = NullInstance]
  /\ UNCHANGED walkVars

\* After the fix-it migrations of phase 1: give up, or go on to the
\* syntactic passes.
AfterPreFixItPasses ==
  /\ mig.pc = "returned"
  /\ mig.phase = "pre"
  /\ mig' = IF GiveUp(mig.Ret)
              THEN [mig EXCEPT !.pc = "done", !.Result = "failed"]
              ELSE [mig EXCEPT !.pc = "syntactic"]
  /\ UNCHANGED walkVars

\* Phase 2: the syntactic passes add a state whose input is the input
\* buffer of the last state and whose output is a new buffer.  Phase 3, the
\* fix-it migrations after them, follows when it is enabled.
performSyntacticPasses ==
  /\ mig.pc = "syntactic"
  /\ LET ResultBuffer == mig.NumBuffers + 1
         M == [mig EXCEPT
                 !.NumBuffers = ResultBuffer,
                 !.States = Append(@, MigrationStateMake(
                                        "Syntactic",
                                        Back(mig.States).InputBufferID,
                                        ResultBuffer))]
     IN  mig' = IF mig.EnableMigratorFixits
                  THEN CallRepeatFixitMigrations(
                         M, "post", mig.MaxCompilerFixitPassIterations)
                  ELSE [M EXCEPT !.pc = "emit"]
  /\ UNCHANGED walkVars

\* The instance the fix-it migrations of phase 3 return is thrown away.
AfterPostFixItPasses ==
  /\ mig.pc = "returned"
  /\ mig.phase = "post"
  /\ mig' = [mig EXCEPT !.pc = "emit"]
  /\ UNCHANGED walkVars

\* The remap, the migrated file and the dump of the states: the result is
\* that one of them failed.
EmitResults ==
  /\ mig.pc = "emit"
  /\ \E EmitMigratedFailed \in BOOLEAN, DumpMigrationStatesFailed \in BOOLEAN :
       mig' = [mig EXCEPT
                 !.pc = "done",
                 !.Result = IF EmitMigratedFailed \/ DumpMigrationStatesFailed
                              THEN "failed" ELSE "ok"]
  /\ UNCHANGED walkVars

NextMigrator ==
  \/ PreFixItPasses
  \/ RepeatFixitMigration
  \/ RepeatFixitMigrationsEnd
  \/ AfterPreFixItPasses
  \/ performSyntacticPasses
  \/ AfterPostFixItPasses
  \/ EmitResults

\* The migrator runs on: every call it makes returns.
SpecMigrator == InitMigrator /\ [][NextMigrator]_vars /\ WF_vars(NextMigrator)

\* ------------------------------------------- the events along the walk's path

\* An unsigned counter is positive, or exceeds one (see UGt0 for the
\* representation of the counters).
Positive(x) == x > 0 \/ x < 0
MoreThanOne(x) == x > 1 \/ x < 0

IsReadAccess(a) == BAIs[a].Kind = "Read"

StorageOf(a) == findAccessedStorage(BAIs[a].Source)

\* The instructions the state of block b results from: those of the chain of
\* blocks its input state was taken from, then its own.
RECURSIVE PathTo(_)
PathTo(b) ==
  IF inFrom[b] = 0 THEN body[b] ELSE PathTo(inFrom[b]) \o body[b]

\* The begin_access and end_access instructions among them, in order.
Events(b) ==
  SelectSeq(PathTo(b), LAMBDA i : i.op \in {"begin_access", "end_access"})

\* The accesses begun and not ended by the first k events of E.
OpenAt(E, k) ==
  {a \in 1..Len(BAIs) :
     \E i \in 1..k : /\ E[i] = [op |-> "begin_access", id |-> a]
                     /\ \A j \in (i + 1)..k : E[j] # [op |-> "end_access", id |-> a]}

\* Those of them that access storage location l.
OpenOn(E, k, l) == {a \in OpenAt(E, k) : StorageOf(a) = l}

\* Every end_access of E ends an access that is open when it is reached.
WellPaired(E) ==
  \A k \in 1..Len(E) : E[k].op = "end_access" => E[k].id \in OpenAt(E, k - 1)

\* The position in E of the begin_access of a; 0 when it is not in E.
BeginPos(E, a) ==
  IF \E i \in 1..Len(E) : E[i] = [op |-> "begin_access", id |-> a]
    THEN CHOOSE i \in 1..Len(E) : E[i] = [op |-> "begin_access", id |-> a]
    ELSE 0

\* The storage locations the function accesses.
Storages == {findAccessedStorage(v) : v \in AccessSources}

\* The blocks the walk has given a state to.
Visited == {b \in Blocks : BlockOutAccesses[b].has}

\* -------------------------------------------------------------------- claims

\* C1. The conflict test: a begin_access of kind K, met with the counts
\* (reads, nonReads) the location's record holds before the increment, is a
\* conflict iff nonReads > 0 when K is a read, and iff nonReads > 0 or
\* reads > 0 when K is write-like.
C1_ConflictTest ==
  last.op = "begin_access" =>
    (last.conflicts <=>
       IF last.Kind = "Read"
         THEN Positive(last.pre.NonReads)
         ELSE Positive(last.pre.NonReads) \/ Positive(last.pre.Reads))

\* A write-like begin_access that conflicts with open reads alone.
C1_Witness ==
  /\ last.op = "begin_access"
  /\ last.Kind # "Read"
  /\ last.pre.Reads = 2
  /\ last.pre.NonReads = 0
  /\ last.conflicts

\* C2. A step that handles a begin_access appends exactly one record
\* (location, the first access of the location's record, the begin_access)
\* when, on the record as it is before the increment, the conflict test is
\* true and alreadyHadConflict = (nonReads > 0 and reads > 0) or (nonReads > 1)
\* is false, and leaves the list as it is otherwise.
C2_DedupRule ==
  [][last'.op = "begin_access" =>
       LET Info == Lookup(Accesses, last'.Storage)
           test == IF last'.Kind = "Read"
                     THEN Positive(Info.NonReads)
                     ELSE Positive(Info.NonReads) \/ Positive(Info.Reads)
           hadConflict == \/ Positive(Info.NonReads) /\ Positive(Info.Reads)
                          \/ MoreThanOne(Info.NonReads)
       IN  ConflictingAccesses' =
             IF test /\ ~hadConflict
               THEN Append(ConflictingAccesses,
                           [Storage |-> last'.Storage,
                            FirstAccess |-> Info.FirstAccess,
                            SecondAccess |-> last'.id])
               ELSE ConflictingAccesses]_vars

\* A begin_access that conflicts and is not recorded, after one that was.
C2_Witness ==
  /\ last.op = "begin_access"
  /\ last.conflicts
  /\ last.had
  /\ Len(ConflictingAccesses) = 1
  /\ last.nConf = 1

\* C6. After every begin_access and end_access of a walk whose end_access
\* instructions each end an access in progress (the pairing the input IR is
\* built with), FirstAccess is set in a record iff reads + nonReads > 0.
C6_FirstAccessSetIffOpen ==
  \A b \in Visited :
    WellPaired(Events(b)) =>
      \A l \in DOMAIN BlockOutAccesses[b].map :
        LET Info == BlockOutAccesses[b].map[l]
        IN  (Info.FirstAccess # 0)
              <=> (Positive(Info.Reads) \/ Positive(Info.NonReads))

\* An end_access has left a record with a write-like access open and no read.
C6_Witness ==
  /\ last.op = "end_access"
  /\ last.present
  /\ last.Kind = "Read"
  /\ last.Storage \in DOMAIN Accesses
  /\ Accesses[last.Storage].Reads = 0
  /\ Accesses[last.Storage].NonReads = 1
  /\ Accesses[last.Storage].FirstAccess # 0

\* The accesses open on location l are free of violation: no write-like
\* access is open together with another access.
OverlapFree(S) == \A a \in S : ~IsReadAccess(a) => S = {a}

\* The indices of the records whose second access lies on the path E.
RecordsOn(E) ==
  {i \in 1..Len(ConflictingAccesses) :
     BeginPos(E, ConflictingAccesses[i].SecondAccess) # 0}

\* Every end_access of E ends the access to its location begun last among
\* those still open: the accesses to a location are properly nested.
WellNested(E) ==
  \A k \in 1..Len(E) :
    E[k].op = "end_access" =>
      \A a \in OpenOn(E, k - 1, StorageOf(E[k].id)) : a <= E[k].id

\* C3, as claimed. On every well-paired path (here: one whose accesses are
\* properly nested as well), between the begin_access instructions of two
\* records for the same location there is a moment at which no access to the
\* location is open.
C3_OneRecordPerDrain ==
  \A b \in Visited :
    LET E == Events(b)
    IN  (WellPaired(E) /\ WellNested(E)) =>
          \A i, j \in RecordsOn(E) :
            LET ci == ConflictingAccesses[i]
                cj == ConflictingAccesses[j]
            IN  (i < j /\ ci.Storage = cj.Storage) =>
                  \E k \in BeginPos(E, ci.SecondAccess)..(BeginPos(E, cj.SecondAccess) - 1) :
                    OpenOn(E, k, ci.Storage) = {}

\* C3, amended. On every well-paired path, between the begin_access
\* instructions of two records for the same location there is a moment at
\* which the accesses open on the location are free of violation (at most
\* one write-like access and nothing else, or reads only); the location need
\* not drain.
C3_OneRecordPerViolation ==
  \A b \in Visited :
    LET E == Events(b)
    IN  WellPaired(E) =>
          \A i, j \in RecordsOn(E) :
            LET ci == ConflictingAccesses[i]
                cj == ConflictingAccesses[j]
            IN  (i < j /\ ci.Storage = cj.Storage) =>
                  \E k \in BeginPos(E, ci.SecondAccess)..(BeginPos(E, cj.SecondAccess) - 1) :
                    OverlapFree(OpenOn(E, k, ci.Storage))

\* Two records for one location on a well-paired path, the location never
\* having drained in between.
C3_Witness ==
  /\ pc = "instr"
  /\ WellPaired(Events(BB))
  /\ \E i, j \in RecordsOn(Events(BB)) :
       /\ i < j
       /\ ConflictingAccesses[i].Storage = ConflictingAccesses[j].Storage
       /\ \A k \in BeginPos(Events(BB), ConflictingAccesses[i].SecondAccess)
                     ..(BeginPos(Events(BB), ConflictingAccesses[j].SecondAccess) - 1) :
            OpenOn(Events(BB), k, ConflictingAccesses[i].Storage) # {}

\* C4, as claimed. No record of a well-paired path has a read as its first
\* access and a read as its second access.
C4_NoReadReadRecord ==
  \A b \in Visited :
    LET E == Events(b)
    IN  WellPaired(E) =>
          \A i \in RecordsOn(E) :
            ~(/\ IsReadAccess(ConflictingAccesses[i].FirstAccess)
              /\ IsReadAccess(ConflictingAccesses[i].SecondAccess))

\* C5, as claimed. On a well-paired path, the first access of every record
\* of the map is open and was begun before every other access open on the
\* location (accesses are numbered in the order they are begun), and the
\* first access of a conflict record is open when the record is made.
C5_FirstAccessIsEarliestOpen ==
  \A b \in Visited :
    LET E == Events(b)
    IN  WellPaired(E) =>
          /\ \A l \in DOMAIN BlockOutAccesses[b].map :
               LET O == OpenOn(E, Len(E), l)
                   F == BlockOutAccesses[b].map[l].FirstAccess
               IN  F \in O /\ \A a \in O : F <= a
          /\ \A i \in RecordsOn(E) :
               LET c == ConflictingAccesses[i]
               IN  c.FirstAccess \in OpenAt(E, BeginPos(E, c.SecondAccess) - 1)

\* The begin_access instructions of E on location l, as access ids in order.
BeginsOn(E, l) ==
  LET B == SelectSeq(E, LAMBDA i : i.op = "begin_access" /\ StorageOf(i.id) = l)
  IN  [k \in 1..Len(B) |-> B[k].id]

\* The records for location l whose second access lies on the path E.
RecordsFor(E, l) ==
  SelectSeq(ConflictingAccesses,
            LAMBDA c : c.Storage = l /\ BeginPos(E, c.SecondAccess) # 0)

\* C7. When the instructions of a path on a location are n >= 2 begin_access
\* instructions of write-like kinds and no end_access, exactly one record is
\* made for the location: the first access with the second.
C7_StackedWritesOneRecord ==
  \A b \in Visited :
    \A l \in Storages :
      LET E == Events(b)
          B == BeginsOn(E, l)
      IN  (/\ Len(B) >= 2
           /\ \A k \in 1..Len(B) : ~IsReadAccess(B[k])
           /\ \A k \in 1..Len(E) : E[k].op = "end_access" => StorageOf(E[k].id) # l)
          => RecordsFor(E, l) =
               <<[Storage |-> l, FirstAccess |-> B[1], SecondAccess |-> B[2]]>>

\* Three write-like accesses are open on one location.
C7_Witness ==
  /\ pc = "instr"
  /\ \E l \in Storages :
       /\ Len(BeginsOn(Events(BB), l)) = 3
       /\ \A k \in 1..3 : ~IsReadAccess(BeginsOn(Events(BB), l)[k])
       /\ l \in DOMAIN Accesses
       /\ Accesses[l].NonReads = 3
       /\ Len(RecordsFor(Events(BB), l)) = 1

\* The last moment before position p of E at which no access to l is open.
LastDrain(E, p, l) ==
  CHOOSE k \in 0..(p - 1) :
    /\ OpenOn(E, k, l) = {}
    /\ \A j \in (k + 1)..(p - 1) : OpenOn(E, j, l) # {}

\* The first access to l begun after position k of E.
FirstBegunAfter(E, k, l) ==
  LET p == CHOOSE i \in (k + 1)..Len(E) :
             /\ E[i].op = "begin_access" /\ StorageOf(E[i].id) = l
             /\ \A j \in (k + 1)..(i - 1) :
                  ~(E[j].op = "begin_access" /\ StorageOf(E[j].id) = l)
  IN  E[p].id

\* The begin_access at position p of E overlaps an access it may not overlap:
\* a write-like access is open on its location, or it is write-like and a
\* read is open.
Overlaps(E, p) ==
  /\ E[p].op = "begin_access"
  /\ LET O == OpenOn(E, p - 1, StorageOf(E[p].id))
     IN  IF IsReadAccess(E[p].id) THEN \E o \in O : ~IsReadAccess(o) ELSE O # {}

\* C8. On a well-paired path, the first access of every record is the first
\* access to the location begun since the location last drained, and the
\* first begin_access after a drain that overlaps another access is recorded
\* with that first access.
C8_DrainResetsEpisode ==
  \A b \in Visited :
    LET E == Events(b)
    IN  WellPaired(E) =>
          /\ \A i \in RecordsOn(E) :
               LET c == ConflictingAccesses[i]
                   p == BeginPos(E, c.SecondAccess)
               IN  c.FirstAccess = FirstBegunAfter(E, LastDrain(E, p, c.Storage), c.Storage)
          /\ \A p \in 1..Len(E) :
               Overlaps(E, p) =>
                 LET l == StorageOf(E[p].id)
                     d == LastDrain(E, p, l)
                 IN  (\A q \in (d + 1)..(p - 1) : ~Overlaps(E, q)) =>
                       \E i \in RecordsOn(E) :
                         ConflictingAccesses[i] =
                           [Storage |-> l,
                            FirstAccess |-> FirstBegunAfter(E, d, l),
                            SecondAccess |-> E[p].id]

\* write A, end A, write B, write C on one location: one record, (B, C).
C8_Witness ==
  /\ pc = "instr"
  /\ Events(BB) = << [op |-> "begin_access", id |-> 1],
                     [op |-> "end_access", id |-> 1],
                     [op |-> "begin_access", id |-> 2],
                     [op |-> "begin_access", id |-> 3] >>
  /\ \A a \in 1..3 : ~IsReadAccess(a) /\ StorageOf(a) = StorageOf(1)
  /\ ConflictingAccesses =
       <<[Storage |-> StorageOf(1), FirstAccess |-> 2, SecondAccess |-> 3]>>

\* ------------------------------------------------ well-formed access markers

\* The accesses open after the instructions instrs[i..], started with the
\* accesses S open, and whether every one of them was in order: a begin_access
\* of an access not open, an end_access of an access open, a return with no
\* access open.
RECURSIVE ExecFrom(_, _, _, _)
ExecFrom(instrs, i, S, ok) ==
  IF i > Len(instrs) THEN [open |-> S, ok |-> ok]
  ELSE LET I == instrs[i]
       IN  IF I.op = "begin_access"
             THEN ExecFrom(instrs, i + 1, S \cup {I.id}, ok /\ I.id \notin S)
           ELSE IF I.op = "end_access"
             THEN ExecFrom(instrs, i + 1, S \ {I.id}, ok /\ I.id \in S)
           ELSE IF I.op = "return"
             THEN ExecFrom(instrs, i + 1, S, ok /\ S = {})
           ELSE ExecFrom(instrs, i + 1, S, ok)

\* Per block, the sets of accesses open on entry to it along some path from
\* the entry block: the least fixed point of propagation along the edges.
RECURSIVE OpenSetsFrom(_)
OpenSetsFrom(X) ==
  LET X1 == [b \in Blocks |->
               X[b] \cup {ExecFrom(body[p], 1, S, TRUE).open :
                            <<p, S>> \in {ps \in Blocks \X UNION Range(X) :
                                            /\ b \in Range(cfg[ps[1]])
                                            /\ ps[2] \in X[ps[1]]}}]
  IN  IF X1 = X THEN X ELSE OpenSetsFrom(X1)

OpenSetsIn ==
  OpenSetsFrom([b \in Blocks |-> IF b = EntryBlock THEN {{}} ELSE {}])

\* The access markers of the function are well-formed: on every path every
\* begin_access is ended exactly once, before it is begun again and before a
\* return, and every end_access ends an open access.
WellFormedFunction ==
  LET X == OpenSetsIn
  IN  \A b \in Blocks : \A S \in X[b] : ExecFrom(body[b], 1, S, TRUE).ok

HasReturn(b) == body[b] # <<>> /\ body[b][Len(body[b])].op = "return"

\* C9. When the access markers of the function are well-formed, the access
\* map is empty at every return the walk has reached, and the assertion at
\* the return has not failed.
C9_BalancedAtExit ==
  WellFormedFunction =>
    /\ \A b \in Blocks : HasReturn(b) => DOMAIN BlockOutAccesses[b].map = {}
    /\ ~(pc = "fault" /\ last.op = "return")

\* The walk of a well-formed function is complete; an access begun in one
\* block is ended in another, which is entered over a merge or inside a loop
\* and leads to a return.
C9_Witness ==
  /\ pc = "done"
  /\ WellFormedFunction
  /\ \E b \in Blocks : HasReturn(b)
  /\ \E b \in Blocks, a \in 1..Len(BAIs) :
       /\ BAIs[a].Block # b
       /\ Cardinality(PredSet(cfg, b)) = 2
       /\ [op |-> "end_access", id |-> a] \in Range(body[b])

\* C10, as claimed. An end_access that finds no record for its location in
\* the access map aborts the analysis.
C10_EndWithoutRecordAborts ==
  (last.op = "end_access" /\ ~last.present) => pc = "fault"

\* C11, as claimed. Whenever the walk has passed a return with accesses still
\* in the map, it has stopped on an internal fault and no diagnostic has been
\* emitted.
C11_OpenAccessAtExitFaults ==
  \A b \in Blocks :
    (HasReturn(b) /\ DOMAIN BlockOutAccesses[b].map # {}) =>
      (pc = "fault" /\ Diags = <<>>)

\* The walk has visited every block of the function.
TraversalComplete == bi > Len(RPO)

\* C12. No diagnostic is emitted before every block of the function has been
\* visited; when the walk stops on a fault, no diagnostic has been emitted,
\* whatever violations it had recorded.
C12_AllOrNothing ==
  /\ Diags # <<>> => TraversalComplete
  /\ (pc = "fault" /\ ~TraversalComplete) => Diags = <<>>

\* The walk has stopped at a return after it had recorded a violation.
C12_Witness ==
  /\ pc = "fault"
  /\ last.op = "return"
  /\ ~TraversalComplete
  /\ ConflictingAccesses # <<>>
  /\ Diags = <<>>

\* The violations the emission loop has been through.
Emitted == 1..(next - 1)

\* The error and the note emitted for the k-th violation.
PrimaryOf(k) == Diags[2 * k - 1]
NoteOf(k) == Diags[2 * k]

\* C13, as claimed. The diagnostics are, in the order of the records, one
\* error and one note on the two accesses of each record the emission loop
\* has been through, and a run that has ended after the walk has been through
\* every record.
C13_OneErrorOneNotePerRecord ==
  /\ Len(Diags) = 2 * (next - 1)
  /\ \A k \in Emitted :
       LET V == ConflictingAccesses[k]
       IN  /\ PrimaryOf(k).ID \in {"exclusivity_access_required",
                                   "exclusivity_access_required_unknown_decl"}
           /\ NoteOf(k).ID = "exclusivity_conflicting_access"
           /\ {PrimaryOf(k).Loc, NoteOf(k).Loc} = {V.FirstAccess, V.SecondAccess}
  /\ (TraversalComplete /\ pc \in {"done", "fault"}) =>
       next = Len(ConflictingAccesses) + 1

\* C14, as claimed. The access of the error requires exclusive access; it is
\* the prior access when that one is write-like, and the new access
\* otherwise, the other access being that of the note.
C14_PrimaryRequiresExclusive ==
  \A k \in Emitted :
    LET V == ConflictingAccesses[k]
    IN  /\ ~IsReadAccess(PrimaryOf(k).Loc)
        /\ IF ~IsReadAccess(V.FirstAccess)
             THEN PrimaryOf(k).Loc = V.FirstAccess /\ NoteOf(k).Loc = V.SecondAccess
             ELSE PrimaryOf(k).Loc = V.SecondAccess /\ NoteOf(k).Loc = V.FirstAccess

\* C16. A violation does not stop the analysis: a step that handles a
\* begin_access adds exactly one to the counter of its kind in the location's
\* record and leaves the other counter as it is, whether or not the access
\* conflicts and whether or not a record is appended, and the walk goes on
\* with the next instruction of the same block; nothing is diagnosed yet.
C16_ConflictDoesNotStopAnalysis ==
  [][last'.op = "begin_access" =>
       LET pre == Lookup(Accesses, last'.Storage)
           post == Lookup(BlockOutAccesses'[BB].map, last'.Storage)
       IN  /\ post.Reads = pre.Reads + (IF last'.Kind = "Read" THEN 1 ELSE 0)
           /\ post.NonReads = pre.NonReads + (IF last'.Kind = "Read" THEN 0 ELSE 1)
           /\ pc' = "instr"
           /\ bi' = bi
           /\ Diags' = Diags]_vars

\* A begin_access handled after a recorded violation conflicts in its turn,
\* is counted, and the walk is still among the instructions of the block.
C16_Witness ==
  /\ last.op = "begin_access"
  /\ last.conflicts
  /\ last.nConf >= 1
  /\ pc = "instr"
  /\ Lookup(Accesses, last.Storage).NonReads + Lookup(Accesses, last.Storage).Reads
       = last.pre.NonReads + last.pre.Reads + 1

\* Every begin_access of E on location l is met with no access to l open.
Sequential(E, l) ==
  \A k \in 1..Len(E) :
    (E[k].op = "begin_access" /\ StorageOf(E[k].id) = l)
      => OpenOn(E, k - 1, l) = {}

\* C17. On a path whose end_access instructions each end an open access and
\* on which every begin_access on a location is met while no access to that
\* location is open, no record is made for the location, whatever the kinds
\* of the accesses.
C17_NoConflictWithoutOverlap ==
  \A b \in Visited :
    \A l \in Storages :
      LET E == Events(b)
      IN  (WellPaired(E) /\ Sequential(E, l)) => RecordsFor(E, l) = <<>>

\* Two write-like accesses of one location, the second begun after the end
\* of the first, and no record.
C17_Witness ==
  /\ pc = "instr"
  /\ last.op = "begin_access"
  /\ last.Kind # "Read"
  /\ LET E == Events(BB)
         B == BeginsOn(E, last.Storage)
     IN  /\ WellPaired(E)
         /\ Sequential(E, last.Storage)
         /\ Len(B) = 2
         /\ ~IsReadAccess(B[1])
  /\ ConflictingAccesses = <<>>

\* The root an address is built from: the global variable of a global_addr,
\* the value left when the projections and casts are looked through.
RECURSIVE RootOf(_)
RootOf(v) ==
  LET d == ValueDefs[v]
  IN  IF d.kind = "GlobalAddrInst" THEN d.global
      ELSE IF d.kind \in LookThroughKinds THEN RootOf(d.operand)
      ELSE v

\* C18. Two storage locations compare equal only when they are of the same
\* variant with equal payloads (the same value, the same global, or the same
\* object and the same field): locations of different variants, and value or
\* global locations built from distinct roots, do not compare equal, and two
\* accesses whose locations do not compare equal share no record of the map
\* and do not conflict.
C18_NoFalseMerge ==
  probe.done =>
    LET S1 == findAccessedStorage(probe.Source1)
        S2 == findAccessedStorage(probe.Source2)
    IN  /\ probe.equal => S1 = S2
        /\ S1.Kind # S2.Kind => ~probe.equal
        /\ (/\ S1.Kind = S2.Kind
            /\ S1.Kind \in {"Value", "GlobalVar"}
            /\ RootOf(probe.Source1) # RootOf(probe.Source2)) => ~probe.equal
        /\ ~probe.equal => (~probe.shared /\ ~probe.conflicts)

\* Two write-like accesses to value locations built from distinct roots:
\* two records, no conflict.
C18_Witness ==
  /\ probe.done
  /\ findAccessedStorage(probe.Source1).Kind = "Value"
  /\ findAccessedStorage(probe.Source2).Kind = "Value"
  /\ RootOf(probe.Source1) # RootOf(probe.Source2)
  /\ probe.Kind1 = "Modify"
  /\ probe.Kind2 = "Modify"
  /\ ~probe.equal
  /\ ~probe.shared
  /\ ~probe.conflicts

\* The recorded calls to swap() whose location is a call expression with the
\* prior access of record V as argument 1 and the new access as argument 2.
SwapCallsOf(V) ==
  {CallsToSwap[i].Loc : i \in {j \in 1..Len(CallsToSwap) :
     /\ CallsToSwap[j].Loc.node = "CallExpr"
     /\ CallsToSwap[j].Loc.Arg1.id = V.FirstAccess
     /\ CallsToSwap[j].Loc.Arg2.id = V.SecondAccess}}

\* Both accesses of V are write-like and CE is swap(&b[..], &b[..]) with the
\* two subscripts resolved to one declaration that is declared in
\* MutableCollection or satisfies one of its requirements, on textually
\* identical bases.
SwapOfSubscripts(V, CE) ==
  /\ ~IsReadAccess(V.FirstAccess)
  /\ ~IsReadAccess(V.SecondAccess)
  /\ CE.Arg1.SubExpr.node = "SubscriptExpr"
  /\ CE.Arg2.SubExpr.node = "SubscriptExpr"
  /\ CE.Arg1.SubExpr.Decl = CE.Arg2.SubExpr.Decl
  /\ \/ SubscriptDecls[CE.Arg1.SubExpr.Decl].Protocol = "MutableCollection"
     \/ "MutableCollection" \in SubscriptDecls[CE.Arg1.SubExpr.Decl].Satisfied
  /\ CE.Arg1.SubExpr.Base.Text = CE.Arg2.SubExpr.Base.Text

\* C19 as stated. Whenever the two accesses of a diagnosed violation are
\* write-like, are the inout arguments 1 and 2 of a recorded call to swap(),
\* each wrapping a subscript, the two subscripts resolving to one declaration
\* on MutableCollection with textually identical bases, the primary
\* diagnostic carries a replacement of the call.
C19_FixItForEverySwapOfSubscripts ==
  \A k \in Emitted :
    \A CE \in SwapCallsOf(ConflictingAccesses[k]) :
      SwapOfSubscripts(ConflictingAccesses[k], CE)
        => /\ PrimaryOf(k).FixIt # NoFixIt
           /\ PrimaryOf(k).FixIt.Replace = CE

\* C19, amended. When, besides, the storage location has a declaration to
\* name and each of the two indices is one parenthesized expression, the
\* primary diagnostic is the one that names the declaration and carries the
\* replacement of the whole call by <base>.swapAt(<index1>, <index2>).
C19_FixItWhenEveryCheckPasses ==
  \A k \in Emitted :
    \A CE \in SwapCallsOf(ConflictingAccesses[k]) :
      (/\ SwapOfSubscripts(ConflictingAccesses[k], CE)
       /\ getStorageDecl(ConflictingAccesses[k].Storage) # ""
       /\ CE.Arg1.SubExpr.Index.node = "ParenExpr"
       /\ CE.Arg2.SubExpr.Index.node = "ParenExpr")
        => /\ PrimaryOf(k).ID = "exclusivity_access_required"
           /\ PrimaryOf(k).FixIt =
                [Replace |-> CE,
                 Text |-> << CE.Arg1.SubExpr.Base.Text, ".swapAt(",
                             CE.Arg1.SubExpr.Index.SubExpr.Text, ", ",
                             CE.Arg2.SubExpr.Index.SubExpr.Text, ")" >>]

\* swap(&c[i], &c[j]) on an Array has been diagnosed with the replacement
\* c.swapAt(i, j).
C19_Witness ==
  \E k \in Emitted :
    /\ SwapCallsOf(ConflictingAccesses[k]) # {}
    /\ PrimaryOf(k).FixIt # NoFixIt
    /\ PrimaryOf(k).FixIt.Replace.Arg1.SubExpr.Decl = "Array.subscript"
    /\ PrimaryOf(k).FixIt.Text = <<"c", ".swapAt(", "i", ", ", "j", ")">>

\* The run has ended after the walk of all the blocks.
RunEnded == TraversalComplete /\ pc \in {"done", "fault"}

\* C20. A replacement by swapAt is attached to a diagnostic only when the two
\* accesses are write-like and are the inout arguments 1 and 2 of a recorded
\* call to swap(), each wrapping a subscript, the subscripts resolving to one
\* declaration on MutableCollection with textually identical bases; the note
\* carries none; and a violation that fails one of these conditions is
\* diagnosed all the same, without a replacement, by the end of the run.
C20_FixItOnlyForSwapOfSubscripts ==
  /\ \A k \in Emitted :
       /\ NoteOf(k).FixIt = NoFixIt
       /\ PrimaryOf(k).FixIt # NoFixIt =>
            \E CE \in SwapCallsOf(ConflictingAccesses[k]) :
              /\ SwapOfSubscripts(ConflictingAccesses[k], CE)
              /\ PrimaryOf(k).FixIt.Replace = CE
  /\ RunEnded =>
       \A k \in 1..Len(ConflictingAccesses) :
         (\A CE \in SwapCallsOf(ConflictingAccesses[k]) :
            ~SwapOfSubscripts(ConflictingAccesses[k], CE))
           => /\ k \in Emitted
              /\ PrimaryOf(k).FixIt = NoFixIt

\* The position of block b in the reverse post order.
IndexInRPO(b) == CHOOSE i \in 1..Len(RPO) : RPO[i] = b

\* The blocks whose walk has ended, and those whose walk has begun.
Processed == {RPO[i] : i \in 1..(bi - 1)}
Entered ==
  Processed \cup (IF bi <= Len(RPO) /\ pc # "block" THEN {BB} ELSE {})

\* C21. The state of a block is defined when the block is walked: the entry
\* block starts from the empty map; every other block has taken the stored
\* state of one of its predecessors, a block other than itself whose walk
\* had ended, and starts with a copy of that state.
C21_InputStateDefined ==
  /\ BlockOutAccesses[EntryBlock].has
  /\ \A b \in Entered :
       /\ BlockOutAccesses[b].has
       /\ IF b = EntryBlock
            THEN inFrom[b] = 0
            ELSE /\ inFrom[b] \in Range(preds[b])
                 /\ inFrom[b] # b
                 /\ IndexInRPO(inFrom[b]) < IndexInRPO(b)
  /\ (bi <= Len(RPO) /\ pc = "instr" /\ body[BB] = <<>>) =>
       BlockOutAccesses[BB] =
         IF BB = EntryBlock THEN SomeState(EmptyStorageMap)
                            ELSE BlockOutAccesses[inFrom[BB]]

\* A block of a loop has skipped the predecessor on its back edge, first in
\* its predecessor list, and starts from the state of the other one, which
\* holds an access in progress.
C21_Witness ==
  /\ bi <= Len(RPO)
  /\ pc = "instr"
  /\ body[BB] = <<>>
  /\ inFrom[BB] # 0
  /\ preds[BB][1] # inFrom[BB]
  /\ ~BlockOutAccesses[preds[BB][1]].has
  /\ DOMAIN BlockOutAccesses[BB].map # {}

\* The walk of the instructions instrs[i..] from the access map M: the map it
\* leaves and the records it makes, appended to Recs.
RECURSIVE WalkFrom(_, _, _, _)
WalkFrom(instrs, i, M, Recs) ==
  IF i > Len(instrs) THEN [map |-> M, records |-> Recs]
  ELSE
    LET I == instrs[i]
    IN  IF I.op = "begin_access" THEN
          LET Kind == BAIs[I.id].Kind
              Storage == findAccessedStorage(BAIs[I.id].Source)
              Info == Lookup(M, Storage)
          IN  WalkFrom(instrs, i + 1,
                       Store(M, Storage, beginAccess(Info, I.id, Kind)),
                       IF conflictsWithAccess(Info, Kind) /\ ~alreadyHadConflict(Info)
                         THEN Append(Recs, [Storage |-> Storage,
                                            FirstAccess |-> Info.FirstAccess,
                                            SecondAccess |-> I.id])
                         ELSE Recs)
        ELSE IF I.op = "end_access" THEN
          LET Kind == BAIs[I.id].Kind
              Storage == findAccessedStorage(BAIs[I.id].Source)
              Info1 == endAccess(Lookup(M, Storage), Kind)
          IN  IF ~Contains(M, Storage) THEN WalkFrom(instrs, i + 1, M, Recs)
              ELSE WalkFrom(instrs, i + 1,
                            IF hasAccessesInProgress(Info1)
                              THEN Store(M, Storage, Info1)
                              ELSE Erase(M, Storage),
                            Recs)
        ELSE WalkFrom(instrs, i + 1, M, Recs)

\* The records the walk has made in block b, in order.
RecordsIn(b) ==
  SelectSeq(ConflictingAccesses, LAMBDA c : BAIs[c.SecondAccess].Block = b)

\* The predecessors of b whose walk had ended when b was entered: those the
\* state of b may be taken from.
AvailablePreds(b) ==
  {p \in Range(preds[b]) : p \in Processed /\ IndexInRPO(p) < IndexInRPO(b)}

\* Two access maps hold the same counts of reads and of write-like accesses
\* for every location.
SameCounts(M1, M2) ==
  /\ DOMAIN M1 = DOMAIN M2
  /\ \A l \in DOMAIN M1 : /\ M1[l].Reads = M2[l].Reads
                          /\ M1[l].NonReads = M2[l].NonReads

\* The accesses in progress at the end of block b, along the walk's path.
OpenAfter(b) == OpenAt(Events(b), Len(Events(b)))

\* The walk of block b from the state of any predecessor it could have taken
\* makes the records the walk has made in b.
SameRecordsFromAnyPred ==
  \A b \in Entered :
    \A p \in AvailablePreds(b) :
      WalkFrom(body[b], 1, BlockOutAccesses[p].map, <<>>).records = RecordsIn(b)

\* C22 as stated. When, for every block, the states of the predecessors it
\* could take its state from hold identical counts of reads and of
\* write-like accesses per location, the records made are the same whichever
\* of them is taken.
C22_SameRecordsOnSameCounts ==
  (\A b \in Entered : \A p, q \in AvailablePreds(b) :
      SameCounts(BlockOutAccesses[p].map, BlockOutAccesses[q].map))
    => SameRecordsFromAnyPred

\* C22, amended. When every end_access ends an access in progress and, for
\* every block, the same begin_access instructions are in progress at the
\* end of each of the predecessors it could take its state from, the records
\* made are the same whichever of them is taken.
C22_SameRecordsOnSameAccesses ==
  (\A b \in Entered :
      /\ WellPaired(Events(b))
      /\ \A p, q \in AvailablePreds(b) : OpenAfter(p) = OpenAfter(q))
    => SameRecordsFromAnyPred

\* A block with two predecessors to choose from, both left with the same
\* access in progress after different instructions, has made a record.
C22_Witness ==
  /\ bi <= Len(RPO)
  /\ pc = "instr"
  /\ Cardinality(AvailablePreds(BB)) = 2
  /\ \A b \in Entered : WellPaired(Events(b))
  /\ \A p, q \in AvailablePreds(BB) : OpenAfter(p) = OpenAfter(q)
  /\ \E p \in AvailablePreds(BB) : OpenAfter(p) # {}
  /\ \E p, q \in AvailablePreds(BB) : Events(p) # Events(q)
  /\ RecordsIn(BB) # <<>>

\* C23. Every block is walked once: it stands once in the reverse post
\* order, which the walk goes through in order.  A step changes the stored
\* state of no block but the one being walked, so the state of a block whose
\* walk has ended stays as it is; and a block that takes the state of a
\* predecessor starts with a copy of what the predecessor has stored, which
\* is what every other successor of that predecessor starts with.
C23_BlockStateFrozen ==
  [][/\ Cardinality(Range(RPO)) = Len(RPO)
     /\ bi' \in {bi, bi + 1}
     /\ \A b \in Blocks :
          (bi > Len(RPO) \/ b # BB) => BlockOutAccesses'[b] = BlockOutAccesses[b]
     /\ (pc = "block" /\ inFrom'[BB] # 0) =>
          /\ BlockOutAccesses'[BB] = BlockOutAccesses[inFrom'[BB]]
          /\ \A b \in Entered :
               inFrom[b] = inFrom'[BB] =>
                 BlockOutAccesses[b].map =
                   WalkFrom(body[b], 1, BlockOutAccesses'[BB].map, <<>>).map]_vars

\* The second successor of a block starts from the state the block stored,
\* an access in progress, after the first successor has ended that access in
\* its own copy.
C23_Witness ==
  /\ bi <= Len(RPO)
  /\ pc = "instr"
  /\ body[BB] = <<>>
  /\ inFrom[BB] # 0
  /\ DOMAIN BlockOutAccesses[BB].map # {}
  /\ BlockOutAccesses[BB] = BlockOutAccesses[inFrom[BB]]
  /\ \E b \in Processed :
       /\ b # BB
       /\ inFrom[b] = inFrom[BB]
       /\ DOMAIN BlockOutAccesses[b].map = {}

\* On every path the walk has followed whose end_access instructions each
\* end an access in progress, every entry of the access map holds an access
\* in progress, and the counters of a location are the numbers of reads and
\* of write-like accesses in progress on it.
CountersMatchOpenAccesses ==
  \A b \in Visited :
    LET E == Events(b)
        M == BlockOutAccesses[b].map
    IN  WellPaired(E) =>
          /\ \A l \in DOMAIN M : Positive(M[l].Reads + M[l].NonReads)
          /\ \A l \in Storages :
               LET Open == OpenOn(E, Len(E), l)
               IN  /\ Lookup(M, l).Reads =
                        Cardinality({a \in Open : IsReadAccess(a)})
                   /\ Lookup(M, l).NonReads =
                        Cardinality({a \in Open : ~IsReadAccess(a)})

\* C24. A step that handles an end_access whose location has an entry takes
\* one from the counter of the kind of the begin_access it is paired with,
\* in the entry of that location, leaves the entries of the other locations
\* as they are, and removes the entry iff both its counters are then zero;
\* and after every step the entries of the map hold accesses in progress
\* and count them, on the paths whose end_access instructions are paired.
C24_EndAccessDecrements ==
  [][/\ (last'.op = "end_access" /\ last'.present) =>
          LET Storage == last'.Storage
              pre == Lookup(Accesses, Storage)
              M1 == BlockOutAccesses'[BB].map
              r == pre.Reads - (IF last'.Kind = "Read" THEN 1 ELSE 0)
              n == pre.NonReads - (IF last'.Kind = "Read" THEN 0 ELSE 1)
          IN  /\ last'.Storage = StorageOf(last'.id)
              /\ last'.Kind = BAIs[last'.id].Kind
              /\ DOMAIN M1 \ {Storage} = DOMAIN Accesses \ {Storage}
              /\ \A l \in DOMAIN M1 \ {Storage} : M1[l] = Accesses[l]
              /\ Storage \notin DOMAIN M1 <=> (r = 0 /\ n = 0)
              /\ Storage \in DOMAIN M1 =>
                   (M1[Storage].Reads = r /\ M1[Storage].NonReads = n)
     /\ CountersMatchOpenAccesses']_vars

\* An end_access has taken one read from a location that keeps an access in
\* progress, with an access to another location in progress.
C24_Witness ==
  /\ last.op = "end_access"
  /\ last.present
  /\ last.Kind = "Read"
  /\ WellPaired(Events(BB))
  /\ Cardinality(DOMAIN Accesses) = 2
  /\ last.Storage \in DOMAIN Accesses
  /\ Accesses[last.Storage].Reads = last.pre.Reads - 1

\* The value a chain of projections, casts and copies starts from.
RECURSIVE ChainRoot(_)
ChainRoot(v) ==
  IF ValueDefs[v].kind \in LookThroughKinds
    THEN ChainRoot(ValueDefs[v].operand)
    ELSE v

\* The kinds of two accesses of which one at least is write-like.
OneIsWrite(k1, k2) == k1 # "Read" \/ k2 # "Read"

\* C25. An address reached through a chain of projections, casts and copies
\* resolves to the storage location its root resolves to; two accesses to
\* addresses reached from one root, two fields of one base among them, are
\* accesses to one location: the second finds the record of the first, and
\* conflicts with it when one of the two is write-like.
C25_ProjectionsFoldIntoBase ==
  probe.done =>
    /\ \A v \in {probe.Source1, probe.Source2} :
         findAccessedStorage(v) = findAccessedStorage(ChainRoot(v))
    /\ ChainRoot(probe.Source1) = ChainRoot(probe.Source2) =>
         /\ probe.equal
         /\ probe.shared
         /\ probe.conflicts <=> OneIsWrite(probe.Kind1, probe.Kind2)

\* A write to a field of the stack allocation conflicts with the write in
\* progress to another field of it.
C25_Witness ==
  /\ probe.done
  /\ probe.Source1 # probe.Source2
  /\ ValueDefs[probe.Source1].kind = "StructElementAddrInst"
  /\ ValueDefs[probe.Source2].kind = "StructElementAddrInst"
  /\ ChainRoot(probe.Source1) = ChainRoot(probe.Source2)
  /\ probe.Kind1 = "Modify"
  /\ probe.Kind2 = "Modify"
  /\ probe.conflicts

\* The address v is the result of a begin_access, or is reached from one.
InAccess(v) == ValueDefs[ChainRoot(v)].kind = "BeginAccessInst"

\* C26. An access whose address is reached from the result of a
\* begin_access is to the location named by that begin_access, which is not
\* the location the outer access is to: begun while the outer access is in
\* progress, it shares no record with it and does not conflict with it,
\* whatever the kinds.  Two accesses within one outer access are to one
\* location, and the second conflicts with the first when one of them is
\* write-like.
C26_NestedAccessOwnLocation ==
  probe.done =>
    LET S1 == findAccessedStorage(probe.Source1)
        S2 == findAccessedStorage(probe.Source2)
        Outer == ChainRoot(probe.Source2)
    IN  /\ InAccess(probe.Source2) =>
             /\ S2 = [Kind |-> "Value", Value |-> Outer]
             /\ S2 # findAccessedStorage(ValueDefs[Outer].operand)
        /\ (InAccess(probe.Source2) /\ ValueDefs[Outer].operand = probe.Source1) =>
             (~probe.equal /\ ~probe.shared /\ ~probe.conflicts)
        /\ (InAccess(probe.Source2) /\ ChainRoot(probe.Source1) = Outer) =>
             /\ probe.shared
             /\ probe.conflicts <=> OneIsWrite(probe.Kind1, probe.Kind2)

\* A write to a field reached from the result of a write access to the
\* global, begun while that access is in progress: no conflict.
C26_Witness ==
  /\ probe.done
  /\ InAccess(probe.Source2)
  /\ probe.Source2 # ChainRoot(probe.Source2)
  /\ ValueDefs[ChainRoot(probe.Source2)].operand = probe.Source1
  /\ probe.Kind1 = "Modify"
  /\ probe.Kind2 = "Modify"
  /\ ~probe.shared
  /\ ~probe.conflicts

\* The path E holds a record for location l whose second access was begun
\* after the accesses to l last drained before position p, among the first n
\* records.
CoveredSince(E, p, l, n) ==
  \E i \in RecordsOn(E) :
    /\ i <= n
    /\ ConflictingAccesses[i].Storage = l
    /\ BeginPos(E, ConflictingAccesses[i].SecondAccess) > LastDrain(E, p, l)

\* C27. On a well-paired path, whenever the record of a location satisfies
\* alreadyHadConflict, (NonReads > 0 and Reads > 0) or NonReads > 1, the
\* list holds a record for the location made since its accesses last
\* drained; and when a begin_access that conflicts is not recorded because
\* alreadyHadConflict was true, such a record was in the list before it.
C27_EveryOverlapCovered ==
  /\ \A b \in Visited :
       LET E == Events(b)
           M == BlockOutAccesses[b].map
       IN  WellPaired(E) =>
             \A l \in DOMAIN M :
               alreadyHadConflict(M[l]) =>
                 CoveredSince(E, Len(E) + 1, l, Len(ConflictingAccesses))
  /\ (/\ pc = "instr"
      /\ last.op = "begin_access"
      /\ last.conflicts
      /\ last.had
      /\ WellPaired(Events(BB)))
     => /\ Len(ConflictingAccesses) = last.nConf
        /\ CoveredSince(Events(BB), Len(Events(BB)), last.Storage, last.nConf)

\* read A, modify B, read C on one location: C conflicts with B and is not
\* recorded, the record (A, B) covers the location.
C27_Witness ==
  /\ pc = "instr"
  /\ last.op = "begin_access"
  /\ last.conflicts
  /\ last.had
  /\ last.Kind = "Read"
  /\ WellPaired(Events(BB))
  /\ Len(ConflictingAccesses) = 1
  /\ ConflictingAccesses[1].Storage = last.Storage
  /\ Accesses[last.Storage].Reads = 2
  /\ Accesses[last.Storage].NonReads = 1

\* The input the pass is written for: the access markers are well-formed and
\* every block is entered with the same accesses in progress along every
\* path to it.
WellFormedInput ==
  /\ WellFormedFunction
  /\ \A b \in Blocks : Cardinality(OpenSetsIn[b]) <= 1

\* The counter an end_access of an access of kind Kind decrements.
CounterOf(Info, Kind) == IF Kind = "Read" THEN Info.Reads ELSE Info.NonReads

\* C28. On well-formed input with the same accesses in progress on the
\* incoming edges of every block, every end_access finds the record of its
\* location, with the counter of the kind of its begin_access at least 1:
\* the lookup never misses, no counter wraps below zero, and every path of
\* the walk ends only accesses that are in progress.
C28_NoCounterUnderflow ==
  WellFormedInput =>
    /\ ~ub
    /\ ~(pc = "fault" /\ last.op = "end_access")
    /\ last.op = "end_access" =>
         /\ last.present
         /\ CounterOf(last.pre, last.Kind) >= 1
    /\ \A b \in Visited :
         /\ WellPaired(Events(b))
         /\ \A l \in DOMAIN BlockOutAccesses[b].map :
              /\ BlockOutAccesses[b].map[l].Reads >= 0
              /\ BlockOutAccesses[b].map[l].NonReads >= 0

\* An if-then whose entry block begins a read, ended in the join block: the
\* end_access finds the record with Reads = 1 and the entry is erased.
C28_Witness ==
  /\ WellFormedInput
  /\ cfg = CFGs[2]
  /\ pc = "instr"
  /\ BB = 3
  /\ last.op = "end_access"
  /\ last.Kind = "Read"
  /\ BAIs[last.id].Block = 1
  /\ last.present
  /\ last.pre.Reads = 1
  /\ last.Storage \notin DOMAIN Accesses

\* The fix-it migrations of the call of repeatFixitMigrations in progress or
\* last returned: at most Iterations, each but the last changed the text,
\* and on return the instance is non-null only when the last migration made
\* no change, null exactly when the last migration failed to set up or all
\* Iterations migrations changed the text.
RepeatReturns ==
  LET n == Len(mig.Outcomes)
  IN  /\ mig.pc \in {"repeat", "returned"} =>
           /\ n <= mig.Iterations
           /\ \A k \in 1..(n - 1) : mig.Outcomes[k] = "changed"
      /\ mig.pc = "repeat" =>
           /\ n = mig.i
           /\ \A k \in 1..n : mig.Outcomes[k] = "changed"
      /\ mig.pc = "returned" =>
           /\ ~mig.Ret.null =>
                /\ n > 0
                /\ mig.Outcomes[n] = "noChanges"
                /\ noChangesOccurred(Back(mig.States))
           /\ mig.Ret.null <=>
                \/ n > 0 /\ mig.Outcomes[n] = "setupFailed"
                \/ n = mig.Iterations /\ \A k \in 1..n : mig.Outcomes[k] = "changed"

\* C29. repeatFixitMigrations(Iterations, ...) returns, after at most
\* Iterations fix-it migrations; it stops at the first migration that fails
\* to set up or makes no change; it returns a non-null instance only when
\* the last migration made no change, and null when a migration failed or
\* all Iterations migrations changed the text.
C29_RepeatFixitMigrationsReturns ==
  /\ []RepeatReturns
  /\ (mig.pc = "repeat") ~> (mig.pc = "returned")

\* After the syntactic passes, a first migration changes the text and a
\* second makes no change: its instance is returned before the iterations
\* are used up.
C29_Witness ==
  /\ mig.pc = "returned"
  /\ mig.phase = "post"
  /\ mig.Iterations > 2
  /\ mig.Outcomes = <<"changed", "noChanges">>
  /\ ~mig.Ret.null

\* C30. The migration states form a chain: the input buffer of every state
\* after the start state is the output buffer of the state before it, for
\* the fix-it states and for the syntactic state.
C30_StatesFormChain ==
  \A k \in 2..Len(mig.States) :
    mig.States[k].InputBufferID = mig.States[k - 1].OutputBufferID

\* A run that is over, with a fix-it migration that changed the text before
\* the syntactic passes and one after them.
C30_Witness ==
  /\ mig.pc = "done"
  /\ \E k \in 2..(Len(mig.States) - 2) :
       /\ mig.States[k].Kind = "CompilerFixits"
       /\ ~noChangesOccurred(mig.States[k])
       /\ mig.States[k + 1].Kind = "CompilerFixits"
       /\ mig.States[k + 2].Kind = "Syntactic"
  /\ Back(mig.States).Kind = "CompilerFixits"
  /\ ~noChangesOccurred(Back(mig.States))

====
